---- MODULE Spec2Model ----
(***************************************************************************)
(* Model of the SEO dashboard of src/src/components/SEODashboard.tsx:      *)
(* the TTL cache hook (useCache), the fetch of the five Sheety endpoints   *)
(* (APIService.fetchSEOData) and the load controller of the SEODashboard   *)
(* component (loadData, the effect that calls it, the Retry and Refresh    *)
(* buttons, the country tabs and the language toggle).                     *)
(*                                                                         *)
(* React is modelled by what it guarantees: the state setters called by    *)
(* one handler are committed together, a setter called with the value the  *)
(* state already has schedules nothing, and after every committed render   *)
(* the effects whose dependencies changed run before the next event is     *)
(* handled.  useCache returns a fresh object literal on every render, so   *)
(* loadData (useCallback over [cache]) is a new function on every render   *)
(* and the effect over [loadData] runs after every committed render.       *)
(*                                                                         *)
(* The views the controller feeds are modelled next to it, each under a    *)
(* specification of its own: the pagination hook (usePagination, SpecPage),*)
(* the pie chart (PieChart, SpecPie) and the derived view of the dataset   *)
(* for the selected country and language (transformedData, SpecView).      *)
(***************************************************************************)
EXTENDS Integers, FiniteSets, Sequences, TLC

\* ------------------------------------------------------------------ bounds
\* Date.now() is counted in ticks of MsPerTick milliseconds.
MsPerTick == 100000
\* Last tick of the clock.
MaxTime == 5
\* Number of loads that reach the network in one run (load ids 1..MaxLoads).
MaxLoads == 3
\* The same number for the runs in which each request comes back on its own.
MaxLoadsReq == 1

\* --------------------------------------------------------------- constants
\* useCache(key, ttl = 5 * 60 * 1000), in ticks.
ttl == (5 * 60 * 1000) \div MsPerTick

\* const cacheKey = 'all-seo-data'
cacheKey == "all-seo-data"

\* The five resources of fetchSEOData, in the order of its Promise.all.
Endpoints ==
  {"domainInfo", "keywordTypesBrand", "keywordTypesNonBrand",
   "longTailKeywords", "competitors"}

\* What one request can come back with: a JSON body with its envelope field
\* ("ok"), a JSON body without it ("bad"), a body that is not JSON, so that
\* json() rejects ("nojson"), or a rejected fetch ("fail").
Outcomes == {"ok", "bad", "nojson", "fail"}
Pending == "pending"

\* The five requests of one load when the request to e comes back as o and
\* the other four as "ok".
Response(e, o) == [x \in Endpoints |-> IF x = e THEN o ELSE "ok"]

\* countries[].code
countries == {"PL", "ES", "FR", "DE"}
Languages == {"native", "english"}

\* A collection of a dataset is named by the load whose response it was
\* unwrapped from; Undefined is the value of body.field when the body has no
\* such field.
Undefined == 0
\* useState<SEOData | null>(null): the null dataset.
null == [e \in Endpoints |-> -1]

NoError == "null"
ErrorMessage == "Failed to load SEO data. Please try again."

\* ------------------------------------------------------------------- state
VARIABLES
  now,                \* Date.now(), in ticks
  cache,              \* useCache: cache.current, a Map from key to CacheItem
  data,               \* useState data
  error,              \* useState error
  isLoading,          \* useState isLoading
  selectedCountry,    \* useState selectedCountry
  selectedLanguage,   \* useState selectedLanguage
  abortControllerRef, \* abortControllerRef.current: 0 (null) or the load that made it
  aborted,            \* the controllers on which abort() was called
  loads,              \* the fetchSEOData calls in flight: id -> [forceRefresh, res]
  nextId,             \* id of the next load to reach the network
  settled,            \* the loads whose fetchSEOData promise has settled
  dirty,              \* a state change is committed and its render and effects are due
  mounted,            \* the component is mounted
  lastOp,             \* the handler that ran last
  lastSet,            \* the last cache.set: what was stored, when, over what, by which kind of load
  lastPending,        \* the requests still pending when the last load settled
  items,              \* usePagination: the data it is given, as row numbers
  currentPage,        \* usePagination: useState currentPage
  pageSize,           \* usePagination: useState pageSize
  pieData,            \* PieChart: the percent of each row of its data prop
  paths,              \* PieChart: what it rendered last
  sheet,              \* the country_code of the rows the endpoints serve
  body,               \* the rows of a keyword-type response, as the endpoint sent them
  keywordTypes,       \* the keyword-type rows fetchSEOData returns for them
  scores,             \* the numbers of the DomainInfo rows, row by row
  overview            \* what the overview card shows

vars ==
  <<now, cache, data, error, isLoading, selectedCountry, selectedLanguage,
    abortControllerRef, aborted, loads, nextId, settled, dirty, mounted,
    lastOp, lastSet, lastPending, items, currentPage, pageSize, pieData,
    paths, sheet, body, keywordTypes, scores, overview>>

\* The state of the load controller, and the state of the views it feeds.
controllerVars ==
  <<now, cache, data, error, isLoading, selectedCountry, selectedLanguage,
    abortControllerRef, aborted, loads, nextId, settled, dirty, mounted,
    lastSet, lastPending>>
cardVars == <<body, keywordTypes, scores, overview>>
viewVars == <<items, currentPage, pageSize, pieData, paths, sheet, cardVars>>

\* No rows at all: the country_code column of each of the five sheets.
NoSheet == [e \in Endpoints |-> <<>>]

NoSet == [data |-> null, time |-> -1, prior |-> "none", forced |-> FALSE]

\* ------------------------------------------------------------------ useCache
EmptyMap == [k \in {} |-> 0]

\* cache.current.delete(cacheKey)
MapDelete(c, k) == [x \in (DOMAIN c) \ {k} |-> c[x]]

\* cache.current.set(cacheKey, item)
MapSet(c, k, item) == [x \in (DOMAIN c) \cup {k} |-> IF x = k THEN item ELSE c[x]]

\* useCache.get at time t: the value returned and the map it leaves behind.
get(c, k, t) ==
  IF k \notin DOMAIN c
    THEN [value |-> null, cache |-> c]
    ELSE IF t - c[k].timestamp > ttl
      THEN [value |-> null, cache |-> MapDelete(c, k)]
      ELSE [value |-> c[k].data, cache |-> c]

\* set with the timestamp of the entry it replaces kept.
set_keepsTimestamp(c, k, d, t) ==
  MapSet(c, k, [data |-> d,
                timestamp |-> IF k \in DOMAIN c THEN c[k].timestamp ELSE t])

\* useCache.set at time t.
set(c, k, d, t) == MapSet(c, k, [data |-> d, timestamp |-> t])

\* ------------------------------------------------------------ fetchSEOData
\* The result of fetchSEOData for load id when the five requests come back
\* as r: it throws, or returns the assembled dataset.
fetchSEOData(id, r) ==
  IF \E e \in Endpoints : r[e] = "fail"
    THEN [ok |-> FALSE, value |-> null]            \* first Promise.all rejects
  ELSE IF \E e \in Endpoints : r[e] = "nojson"
    THEN [ok |-> FALSE, value |-> null]            \* second Promise.all rejects
  ELSE IF r["keywordTypesBrand"] = "bad" \/ r["keywordTypesNonBrand"] = "bad"
    THEN [ok |-> FALSE, value |-> null]            \* undefined.map(...) throws
  ELSE [ok |-> TRUE,
        value |-> [e \in Endpoints |-> IF r[e] = "ok" THEN id ELSE Undefined]]

\* ------------------------------------------------------------ SEODashboard
\* The fetchSEOData call of a load that has just reached the network.
NewLoad(forceRefresh) ==
  [forceRefresh |-> forceRefresh, res |-> [e \in Endpoints |-> Pending]]

\* abortControllerRef.current.abort(), when there is a controller.
Abort(ab, ref) == IF ref = 0 THEN ab ELSE ab \cup {ref}

\* loadData when the cache answered with found: setData(cachedData),
\* setIsLoading(false), return.
LoadHit(found, ab) ==
  /\ cache' = found.cache
  /\ data' = found.value
  /\ isLoading' = FALSE
  /\ aborted' = ab
  /\ UNCHANGED <<error, abortControllerRef, loads, nextId>>

\* loadData from setIsLoading(true) to the await: the previous controller
\* is aborted, a new one is made and fetchSEOData is called.  c is the map
\* the cache is left with; cap is the number of loads the run may send.
LoadMiss(forceRefresh, c, ab, cap) ==
  /\ nextId <= cap
  /\ cache' = c
  /\ isLoading' = TRUE
  /\ error' = NoError
  /\ aborted' = Abort(ab, abortControllerRef)
  /\ abortControllerRef' = nextId
  /\ loads' = (nextId :> NewLoad(forceRefresh)) @@ loads
  /\ nextId' = nextId + 1
  /\ UNCHANGED data

\* loadData with the guard on forceRefresh left out.
loadData_ignoresForce(forceRefresh, ab, cap) ==
  LET found == get(cache, cacheKey, now) IN
  IF found.value # null
    THEN LoadHit(found, ab)
    ELSE LoadMiss(forceRefresh, found.cache, ab, cap)

\* loadData with the return of the cache branch left out.
loadData_noReturn(forceRefresh, ab, cap) ==
  LET found == get(cache, cacheKey, now) IN
  LoadMiss(forceRefresh, IF forceRefresh THEN cache ELSE found.cache, ab, cap)

\* loadData(forceRefresh) up to its await, called when the aborted
\* controllers are ab.
loadData(forceRefresh, ab, cap) ==
  LET found == get(cache, cacheKey, now) IN
  IF ~forceRefresh /\ found.value # null
    THEN LoadHit(found, ab)
    ELSE LoadMiss(forceRefresh, IF forceRefresh THEN cache ELSE found.cache,
                  ab, cap)

\* A setter was called with a value other than the one the state has.
Changed ==
  \/ data' # data
  \/ error' # error
  \/ isLoading' # isLoading
  \/ selectedCountry' # selectedCountry
  \/ selectedLanguage' # selectedLanguage

\* transformedData reads data.domainInfo.find, data.longTailKeywords.filter
\* and data.competitors.filter: a render with one of them undefined throws.
RenderThrows(d) ==
  /\ d # null
  /\ \/ d["domainInfo"] = Undefined
     \/ d["longTailKeywords"] = Undefined
     \/ d["competitors"] = Undefined

\* What the component renders.
Screen ==
  IF isLoading THEN "loading"
  ELSE IF error # NoError THEN "error"
  ELSE "dashboard"

\* The render of a committed state change and the effect over [loadData]
\* that follows it: the previous effect's cleanup, then loadData().  A
\* render that throws unmounts the component (there is no error boundary).
Render(cap) ==
  /\ mounted
  /\ dirty
  /\ UNCHANGED <<now, selectedCountry, selectedLanguage, settled, lastSet, lastPending>>
  /\ UNCHANGED viewVars
  /\ IF RenderThrows(data)
       THEN /\ mounted' = FALSE
            /\ dirty' = FALSE
            /\ aborted' = Abort(aborted, abortControllerRef)
            /\ lastOp' = "crash"
            /\ UNCHANGED <<cache, data, error, isLoading, abortControllerRef,
                           loads, nextId>>
       ELSE /\ loadData(FALSE, Abort(aborted, abortControllerRef), cap)
            /\ dirty' = Changed
            /\ lastOp' = IF nextId' = nextId THEN "effect_hit" ELSE "effect_miss"
            /\ UNCHANGED mounted

\* The Refresh Data button of the dashboard: onClick={() => loadData(true)}.
Refresh(cap) ==
  /\ mounted
  /\ ~dirty
  /\ Screen = "dashboard"
  /\ UNCHANGED <<now, selectedCountry, selectedLanguage, settled, mounted, lastSet, lastPending>>
  /\ UNCHANGED viewVars
  /\ loadData(TRUE, aborted, cap)
  /\ dirty' = Changed
  /\ lastOp' = "refresh"

\* The Retry button of the error screen: onClick={() => loadData(true)}.
Retry(cap) ==
  /\ mounted
  /\ ~dirty
  /\ Screen = "error"
  /\ UNCHANGED <<now, selectedCountry, selectedLanguage, settled, mounted, lastSet, lastPending>>
  /\ UNCHANGED viewVars
  /\ loadData(TRUE, aborted, cap)
  /\ dirty' = Changed
  /\ lastOp' = "retry"

\* A country tab that drops the dataset of the country it leaves.
SelectCountry_dropsData(c) ==
  /\ mounted
  /\ ~dirty
  /\ Screen = "dashboard"
  /\ selectedCountry' = c
  /\ data' = IF c = selectedCountry THEN data ELSE null
  /\ UNCHANGED <<now, cache, error, isLoading, selectedLanguage,
                 abortControllerRef, aborted, loads, nextId, settled, mounted,
                 lastSet, lastPending>>
  /\ UNCHANGED viewVars
  /\ dirty' = Changed
  /\ lastOp' = "country"

\* A country tab: onClick={() => setSelectedCountry(country.code)}.
SelectCountry(c) ==
  /\ mounted
  /\ ~dirty
  /\ Screen = "dashboard"
  /\ selectedCountry' = c
  /\ UNCHANGED <<now, cache, data, error, isLoading, selectedLanguage,
                 abortControllerRef, aborted, loads, nextId, settled, mounted,
                 lastSet, lastPending>>
  /\ UNCHANGED viewVars
  /\ dirty' = Changed
  /\ lastOp' = "country"

\* The language toggle: setSelectedLanguage(prev => prev === 'native' ? 'english' : 'native').
ToggleLanguage ==
  /\ mounted
  /\ ~dirty
  /\ Screen = "dashboard"
  /\ selectedLanguage' = IF selectedLanguage = "native" THEN "english" ELSE "native"
  /\ UNCHANGED <<now, cache, data, error, isLoading, selectedCountry,
                 abortControllerRef, aborted, loads, nextId, settled, mounted,
                 lastSet, lastPending>>
  /\ UNCHANGED viewVars
  /\ dirty' = Changed
  /\ lastOp' = "language"

\* What the entry under k is to a get at time t, before a set replaces it.
Prior(c, k, t) ==
  IF k \notin DOMAIN c THEN "absent"
  ELSE IF get(c, k, t).value = null THEN "expired"
  ELSE "fresh"

\* The try block after the await, with the cache.set left out.
OnSuccess_noCacheSet(id, value) ==
  /\ data' = IF mounted THEN value ELSE data
  /\ UNCHANGED <<cache, lastSet, error>>

\* The try block after the await, with the new dataset merged into the
\* displayed one: a collection the response lacks keeps its old rows.
OnSuccess_mergesData(id, value) ==
  /\ cache' = set(cache, cacheKey, value, now)
  /\ lastSet' = [data |-> value, time |-> now,
                 prior |-> Prior(cache, cacheKey, now),
                 forced |-> loads[id].forceRefresh]
  /\ data' = IF mounted
               THEN [e \in Endpoints |->
                       IF value[e] = Undefined /\ data # null THEN data[e] ELSE value[e]]
               ELSE data
  /\ UNCHANGED error

\* The try block after the await, with the setData left out.
OnSuccess_noSetData(id, value) ==
  /\ cache' = set(cache, cacheKey, value, now)
  /\ lastSet' = [data |-> value, time |-> now,
                 prior |-> Prior(cache, cacheKey, now),
                 forced |-> loads[id].forceRefresh]
  /\ UNCHANGED <<data, error>>

\* The try block of loadData after the await: cache.set(cacheKey, seoData),
\* setData(seoData).  The setters of an unmounted component do nothing.
OnSuccess(id, value) ==
  /\ cache' = set(cache, cacheKey, value, now)
  /\ lastSet' = [data |-> value, time |-> now,
                 prior |-> Prior(cache, cacheKey, now),
                 forced |-> loads[id].forceRefresh]
  /\ data' = IF mounted THEN value ELSE data
  /\ UNCHANGED error

\* The catch block with the data emptied as well.
OnFailure_clearsData ==
  /\ error' = IF mounted THEN ErrorMessage ELSE error
  /\ data' = IF mounted THEN null ELSE data
  /\ UNCHANGED <<cache, lastSet>>

\* The catch block with the cache cleared as well: cache.clear().
OnFailure_clearsCache ==
  /\ error' = IF mounted THEN ErrorMessage ELSE error
  /\ cache' = EmptyMap
  /\ UNCHANGED <<data, lastSet>>

\* The catch block of loadData.  No fetch is given the controller's signal,
\* so every rejection is an Error whose name is not 'AbortError'.
OnFailure ==
  /\ error' = IF mounted THEN ErrorMessage ELSE error
  /\ UNCHANGED <<cache, data, lastSet>>

\* The rest of loadData with setIsLoading(false) at the end of the try block
\* instead of in finally.
Complete_noFinally(id, result, pending) ==
  /\ loads' = [x \in (DOMAIN loads) \ {id} |-> loads[x]]
  /\ lastPending' = pending
  /\ settled' = settled \cup {id}
  /\ IF result.ok THEN OnSuccess(id, result.value) ELSE OnFailure
  /\ isLoading' = IF mounted /\ result.ok THEN FALSE ELSE isLoading
  /\ UNCHANGED <<now, selectedCountry, selectedLanguage, abortControllerRef,
                 aborted, nextId, mounted>>
  /\ UNCHANGED viewVars
  /\ dirty' = Changed
  /\ lastOp' = IF ~mounted THEN "settle_unmounted"
               ELSE IF result.ok THEN "settle_ok" ELSE "settle_fail"

\* The rest of loadData once fetchSEOData of load id has settled with
\* result, pending being the requests that have not come back: the try or
\* the catch block, then finally.
Complete(id, result, pending) ==
  /\ loads' = [x \in (DOMAIN loads) \ {id} |-> loads[x]]
  /\ lastPending' = pending
  /\ settled' = settled \cup {id}
  /\ IF result.ok THEN OnSuccess(id, result.value) ELSE OnFailure
  /\ isLoading' = IF mounted THEN FALSE ELSE isLoading
  /\ UNCHANGED <<now, selectedCountry, selectedLanguage, abortControllerRef,
                 aborted, nextId, mounted>>
  /\ UNCHANGED viewVars
  /\ dirty' = Changed
  /\ lastOp' = IF ~mounted THEN "settle_unmounted"
               ELSE IF result.ok THEN "settle_ok" ELSE "settle_fail"

\* The five requests of load id come back as r and fetchSEOData settles.
\* Like every handler but Render, it waits for the effects of the last
\* commit: React runs them before it handles the next event.
FetchSettle(id, r) ==
  /\ ~dirty
  /\ id \in DOMAIN loads
  /\ Complete(id, fetchSEOData(id, r), {})

\* Promise.race in place of Promise.all: the first response is enough.
Joined_first(pending) == pending # Endpoints

\* Promise.all resolves when none of the five is pending.
Joined(pending) == pending = {}

\* The request of load id to endpoint e comes back as o.  A rejected fetch
\* rejects the first Promise.all at once; otherwise fetchSEOData goes on
\* when the last of the five has come back.
RequestSettle(id, e, o) ==
  /\ ~dirty
  /\ id \in DOMAIN loads
  /\ loads[id].res[e] = Pending
  /\ LET res == [loads[id].res EXCEPT ![e] = o]
         pending == {x \in Endpoints : res[x] = Pending}
     IN  IF o = "fail"
           THEN Complete(id, [ok |-> FALSE, value |-> null], pending)
         ELSE IF Joined(pending)
           THEN Complete(id, fetchSEOData(id, res), pending)
         ELSE /\ loads' = [loads EXCEPT ![id].res = res]
              /\ lastOp' = "response"
              /\ UNCHANGED <<now, cache, data, error, isLoading,
                             selectedCountry, selectedLanguage,
                             abortControllerRef, aborted, nextId, settled,
                             dirty, mounted, lastSet, lastPending>>
              /\ UNCHANGED viewVars

\* Time passes.
Tick ==
  /\ ~dirty
  /\ now < MaxTime
  /\ now' = now + 1
  /\ lastOp' = "tick"
  /\ UNCHANGED <<cache, data, error, isLoading, selectedCountry,
                 selectedLanguage, abortControllerRef, aborted, loads, nextId,
                 settled, dirty, mounted, lastSet,
                 lastPending>>
  /\ UNCHANGED viewVars

\* The component is unmounted: the effect's cleanup runs.
Unmount ==
  /\ mounted
  /\ ~dirty
  /\ mounted' = FALSE
  /\ aborted' = Abort(aborted, abortControllerRef)
  /\ lastOp' = "unmount"
  /\ UNCHANGED <<now, cache, data, error, isLoading, selectedCountry,
                 selectedLanguage, abortControllerRef, loads, nextId, settled,
                 dirty, lastSet, lastPending>>
  /\ UNCHANGED viewVars

\* No keyword-type response has been unwrapped and no overview card drawn.
NoOverview == [total_keywords |-> -1, avg_difficulty_brand |-> -1, color |-> "none"]
InitCards ==
  /\ body = <<>>
  /\ keywordTypes = <<>>
  /\ scores = <<>>
  /\ overview = NoOverview

\* The load controller when the component is constructed and its first
\* render is committed: the mount effect is due.
InitController ==
  /\ now = 0
  /\ cache = EmptyMap
  /\ data = null
  /\ error = NoError
  /\ isLoading = TRUE
  /\ selectedCountry = "PL"
  /\ selectedLanguage = "native"
  /\ abortControllerRef = 0
  /\ aborted = {}
  /\ loads = EmptyMap
  /\ nextId = 1
  /\ settled = {}
  /\ dirty = TRUE
  /\ mounted = TRUE
  /\ lastOp = "mount"
  /\ lastSet = NoSet
  /\ lastPending = {}

\* The views of that first render: there is no dataset, so the tables and
\* the pie charts are given empty arrays.
InitViews ==
  /\ items = <<>>
  /\ currentPage = 1
  /\ pageSize = 10
  /\ pieData = <<>>
  /\ paths = <<>>
  /\ sheet = NoSheet
  /\ InitCards

Init == InitController /\ InitViews

Next ==
  \/ Render(MaxLoads)
  \/ Refresh(MaxLoads)
  \/ Retry(MaxLoads)
  \/ \E c \in countries : SelectCountry(c)
  \/ ToggleLanguage
  \/ \E id \in DOMAIN loads : \E e \in Endpoints, o \in Outcomes :
       FetchSettle(id, Response(e, o))
  \/ Tick
  \/ Unmount

Spec == Init /\ [][Next]_vars

\* The component up to the loads its effect starts, with each of the five
\* requests of a load coming back on its own.
NextReq ==
  \/ Render(MaxLoadsReq)
  \/ \E c \in countries : SelectCountry(c)
  \/ ToggleLanguage
  \/ \E id \in DOMAIN loads : \E e \in Endpoints, o \in Outcomes :
       RequestSettle(id, e, o)
  \/ Tick
  \/ Unmount

SpecReq == Init /\ [][NextReq]_vars

\* React runs the render and the effects of every committed state change,
\* and every request sent to the network comes back.
Fairness ==
  /\ WF_vars(Render(MaxLoadsReq))
  /\ \A id \in 1..MaxLoadsReq :
       WF_vars(\E e \in Endpoints, o \in Outcomes : RequestSettle(id, e, o))

SpecFair == Init /\ [][NextReq]_vars /\ Fairness

\* ------------------------------------------------------------ usePagination
\* The longest array the hook is given.
MaxItems == 23
\* The largest page number goToPage is asked for.
MaxPageArg == 6

\* const pageSizes = [5, 10, 25, 50], the options of the page-size select.
pageSizes == {5, 10, 25, 50}
\* usePagination(transformedData.longTailKeywords, 10) and
\* usePagination(transformedData.competitors, 5).
initialPageSizes == {10, 5}

\* An array of n rows, each named by its place.
Rows(n) == [i \in 1..n |-> i]

\* Math.min, Math.max
Min(a, b) == IF a < b THEN a ELSE b
Max(a, b) == IF a > b THEN a ELSE b

\* Math.ceil(a / b) for a >= 0 and b > 0.
ceil(a, b) == IF a % b = 0 THEN a \div b ELSE (a \div b) + 1

\* Array.prototype.slice(start, end): a negative index counts from the end,
\* both are clamped to the array, and the result is empty unless start < end.
slice(s, start, end) ==
  LET len == Len(s)
      from == IF start < 0 THEN Max(len + start, 0) ELSE Min(start, len)
      to == IF end < 0 THEN Max(len + end, 0) ELSE Min(end, len)
  IN  IF from < to THEN SubSeq(s, from + 1, to) ELSE <<>>

\* The memo with the slice taken from the end of the current page on.
paginate_fromNextPage(d, page, size) ==
  LET total == Len(d)
      start == page * size
      end == Min(start + size, total)
  IN  [totalPages |-> ceil(total, size),
       totalItems |-> total,
       paginatedData |-> slice(d, start, end),
       startItem |-> IF total = 0 THEN 0 ELSE start + 1,
       endItem |-> end]

\* The useMemo of usePagination over [data, currentPage, pageSize].
paginate(d, page, size) ==
  LET total == Len(d)
      pages == ceil(total, size)
      start == (page - 1) * size
      end == Min(start + size, total)
  IN  [totalPages |-> pages,
       totalItems |-> total,
       paginatedData |-> slice(d, start, end),
       startItem |-> IF total = 0 THEN 0 ELSE start + 1,
       endItem |-> end]

\* What the hook returns for the state it is in.
totalPages == paginate(items, currentPage, pageSize).totalPages
paginatedData == paginate(items, currentPage, pageSize).paginatedData
hasNextPage == currentPage < totalPages
hasPreviousPage == currentPage > 1

\* goToPage without the clamp.
goToPage_noClamp(page) ==
  /\ currentPage' = page
  /\ lastOp' = "goToPage"
  /\ UNCHANGED <<controllerVars, items, pageSize, pieData, paths, sheet, cardVars>>

\* goToPage(page): setCurrentPage(Math.max(1, Math.min(page, totalPages))).
goToPage(page) ==
  /\ currentPage' = Max(1, Min(page, totalPages))
  /\ lastOp' = "goToPage"
  /\ UNCHANGED <<controllerVars, items, pageSize, pieData, paths, sheet, cardVars>>

\* goToNextPage without its test.
goToNextPage_noGuard ==
  /\ currentPage' = currentPage + 1
  /\ lastOp' = "goToNextPage"
  /\ UNCHANGED <<controllerVars, items, pageSize, pieData, paths, sheet, cardVars>>

\* goToNextPage: if (currentPage < totalPages) setCurrentPage(prev => prev + 1).
goToNextPage ==
  /\ currentPage' = IF currentPage < totalPages THEN currentPage + 1 ELSE currentPage
  /\ lastOp' = "goToNextPage"
  /\ UNCHANGED <<controllerVars, items, pageSize, pieData, paths, sheet, cardVars>>

\* goToPreviousPage: if (currentPage > 1) setCurrentPage(prev => prev - 1).
goToPreviousPage ==
  /\ currentPage' = IF currentPage > 1 THEN currentPage - 1 ELSE currentPage
  /\ lastOp' = "goToPreviousPage"
  /\ UNCHANGED <<controllerVars, items, pageSize, pieData, paths, sheet, cardVars>>

\* changePageSize with the page left where it is.
changePageSize_keepsPage(size) ==
  /\ pageSize' = size
  /\ lastOp' = "setPageSize"
  /\ UNCHANGED <<controllerVars, items, currentPage, pieData, paths, sheet, cardVars>>

\* changePageSize(size): setPageSize(size), setCurrentPage(1).
changePageSize(size) ==
  /\ pageSize' = size
  /\ currentPage' = 1
  /\ lastOp' = "setPageSize"
  /\ UNCHANGED <<controllerVars, items, pieData, paths, sheet, cardVars>>

\* The component renders with another array for the hook (another
\* selection, another dataset): the hook keeps its page and its page size.
NewItems(n) ==
  /\ items' = Rows(n)
  /\ lastOp' = "items"
  /\ UNCHANGED <<controllerVars, currentPage, pageSize, pieData, paths, sheet, cardVars>>

\* One of the two pagination instances, given an array of any length.
InitPage ==
  /\ InitController
  /\ items \in {Rows(n) : n \in 0..MaxItems}
  /\ currentPage = 1
  /\ pageSize \in initialPageSizes
  /\ pieData = <<>>
  /\ paths = <<>>
  /\ sheet = NoSheet
  /\ InitCards

NextPage ==
  \/ \E page \in -1..MaxPageArg : goToPage(page)
  \/ goToNextPage
  \/ goToPreviousPage
  \/ \E size \in pageSizes : changePageSize(size)
  \/ \E n \in 0..MaxItems : NewItems(n)

SpecPage == InitPage /\ [][NextPage]_vars

\* ----------------------------------------------------------------- PieChart
\* A percent is counted in units of 1/Scale percent, an angle in units of
\* 1/(10 * Scale) degree, so that (cumulativePercentage * 360) / 100 - 90 is
\* exact: 36 angle units to the percent unit, 900 * Scale to the quarter turn.
Scale == 20
\* The longest data prop PieChart is given.
MaxSlices == 3

\* The percents of the rows: 0, 0.05, 0.1, 30, 50, 70 and 100.
Percents ==
  {0, Scale \div 20, Scale \div 10, 30 * Scale, 50 * Scale, 70 * Scale, 100 * Scale}

\* cumulativePercentage when the map callback is called for row i.
RECURSIVE cumulativePercentage(_, _)
cumulativePercentage(d, i) ==
  IF i <= 1 THEN 0 ELSE cumulativePercentage(d, i - 1) + d[i - 1]

\* The percents of the rows before row i that are drawn.
RECURSIVE DrawnBefore(_, _)
DrawnBefore(d, i) ==
  IF i <= 1 THEN 0
  ELSE DrawnBefore(d, i - 1) + (IF 10 * d[i - 1] < Scale THEN 0 ELSE d[i - 1])

\* The map callback with cumulativePercentage advanced after the test that
\* skips a row, so that a skipped row takes no angle.
Slice_skipTakesNoAngle(d, i) ==
  LET percentage == d[i]
      cumulative == DrawnBefore(d, i)
  IN  [index |-> i,
       startAngle |-> cumulative * 36 - 900 * Scale,
       endAngle |-> (cumulative + percentage) * 36 - 900 * Scale,
       largeArcFlag |-> IF percentage > 50 * Scale THEN 1 ELSE 0,
       skipped |-> 10 * percentage < Scale,
       label |-> percentage > 10 * Scale]

\* What the map callback derives from row i: the angles, the large-arc flag,
\* whether it returns null, whether the slice gets a label.
Slice(d, i) ==
  LET percentage == d[i]
      cumulative == cumulativePercentage(d, i)
  IN  [index |-> i,
       startAngle |-> cumulative * 36 - 900 * Scale,
       endAngle |-> (cumulative + percentage) * 36 - 900 * Scale,
       largeArcFlag |-> IF percentage > 50 * Scale THEN 1 ELSE 0,
       skipped |-> 10 * percentage < Scale,
       label |-> percentage > 10 * Scale]

\* PieChart with the rows below 0.1 drawn like the others.
PieChart_noSkip(d) == [i \in 1..Len(d) |-> Slice(d, i)]

\* PieChart: data.map(...).filter(Boolean), the paths it draws; none when
\* data is empty (it returns null).
PieChart(d) ==
  SelectSeq([i \in 1..Len(d) |-> Slice(d, i)], LAMBDA a : ~a.skipped)

\* The arrays of at most n percents.
PercentSeqs(n) == UNION {[1..k -> Percents] : k \in 0..n}

\* The pie chart is rendered over the rows it was given.
RenderPie ==
  /\ paths' = PieChart(pieData)
  /\ lastOp' = "pie"
  /\ UNCHANGED <<controllerVars, items, currentPage, pageSize, pieData, sheet, cardVars>>

\* A pie chart that is given any array of rows and has not rendered yet.
InitPie ==
  /\ InitController
  /\ items = <<>>
  /\ currentPage = 1
  /\ pageSize = 10
  /\ pieData \in PercentSeqs(MaxSlices)
  /\ paths = <<>>
  /\ sheet = NoSheet
  /\ InitCards

NextPie == RenderPie

SpecPie == InitPie /\ [][NextPie]_vars

\* ----------------------------------------------------------- transformedData
\* The longest sheet an endpoint serves.
MaxRows == 3

\* countries[].native and countries[].english
countryTags ==
  [PL |-> [native |-> "PL-PL", english |-> "PL-EN"],
   ES |-> [native |-> "ES-ES", english |-> "ES-EN"],
   FR |-> [native |-> "FR-FR", english |-> "FR-EN"],
   DE |-> [native |-> "DE-DE", english |-> "DE-EN"]]

\* The country_code values met in the sheets keyed by tag, and in the
\* competitors sheet.
TagKeys == {"PL-PL", "ES-EN"}
CompetitorKeys == {"ES", "ES-EN"}

\* The arrays of at most n keys of K.
KeySeqs(K, n) == UNION {[1..k -> K] : k \in 0..n}

\* The rows of a sheet whose country_code column is keys, each named by its
\* place in the sheet.
RowsOf(keys) == [i \in 1..Len(keys) |-> [country_code |-> keys[i], row |-> i]]

\* find(...) || null
NoRow == [country_code |-> "null", row |-> 0]

\* rows.find(d => d.country_code === key) || null
find(rows, key) ==
  LET hits == {i \in 1..Len(rows) : rows[i].country_code = key}
  IN  IF hits = {} THEN NoRow
      ELSE rows[CHOOSE i \in hits : \A j \in hits : i <= j]

\* rows.filter(k => k.country_code === key)
filter(rows, key) == SelectSeq(rows, LAMBDA r : r.country_code = key)

\* getCurrentTag(): the native or the english tag of the selected country.
getCurrentTag(country, language) ==
  IF language = "native"
    THEN countryTags[country].native
    ELSE countryTags[country].english

\* transformedData with the competitors filtered by the tag.
transformedData_competitorsByTag(d, sh, country, language) ==
  LET currentTag == getCurrentTag(country, language) IN
  [domainInfo |-> find(RowsOf(sh["domainInfo"]), currentTag),
   brandKeywords |-> filter(RowsOf(sh["keywordTypesBrand"]), currentTag),
   nonBrandKeywords |-> filter(RowsOf(sh["keywordTypesNonBrand"]), currentTag),
   longTailKeywords |-> filter(RowsOf(sh["longTailKeywords"]), currentTag),
   competitors |-> filter(RowsOf(sh["competitors"]), currentTag)]

\* The useMemo transformedData over the dataset d, whose rows are those of
\* the sheets sh.
transformedData(d, sh, country, language) ==
  IF d = null
    THEN [domainInfo |-> NoRow, brandKeywords |-> <<>>, nonBrandKeywords |-> <<>>,
          longTailKeywords |-> <<>>, competitors |-> <<>>]
    ELSE LET currentTag == getCurrentTag(country, language) IN
         [domainInfo |-> find(RowsOf(sh["domainInfo"]), currentTag),
          brandKeywords |-> filter(RowsOf(sh["keywordTypesBrand"]), currentTag),
          nonBrandKeywords |-> filter(RowsOf(sh["keywordTypesNonBrand"]), currentTag),
          longTailKeywords |-> filter(RowsOf(sh["longTailKeywords"]), currentTag),
          competitors |-> filter(RowsOf(sh["competitors"]), country)]

\* What the dashboard shows of the dataset for the selection it is in.
view == transformedData(data, sheet, selectedCountry, selectedLanguage)

\* The dataset of the first load, as fetchSEOData returned it.
Loaded == fetchSEOData(1, [e \in Endpoints |-> "ok"]).value

\* The dashboard once the first load has succeeded and the effect that
\* follows its render has been served from the cache; the four sheets keyed
\* by tag have the country_code column t, the competitors sheet has c.
InitView ==
  /\ now = 0
  /\ cache = set(EmptyMap, cacheKey, Loaded, 0)
  /\ data = Loaded
  /\ error = NoError
  /\ isLoading = FALSE
  /\ selectedCountry = "PL"
  /\ selectedLanguage = "native"
  /\ abortControllerRef = 1
  /\ aborted = {1}
  /\ loads = EmptyMap
  /\ nextId = 2
  /\ settled = {1}
  /\ dirty = FALSE
  /\ mounted = TRUE
  /\ lastOp = "effect_hit"
  /\ lastSet = [data |-> Loaded, time |-> 0, prior |-> "absent", forced |-> FALSE]
  /\ lastPending = {}
  /\ items = <<>>
  /\ currentPage = 1
  /\ pageSize = 10
  /\ pieData = <<>>
  /\ paths = <<>>
  /\ \E t \in KeySeqs(TagKeys, MaxRows), c \in KeySeqs(CompetitorKeys, MaxRows) :
       sheet = [e \in Endpoints |-> IF e = "competitors" THEN c ELSE t]
  /\ InitCards

\* The selection changes and the renders that follow them; no time passes,
\* so every load of the effect is served from the cache.
NextView ==
  \/ \E c \in countries : SelectCountry(c)
  \/ ToggleLanguage
  \/ Render(MaxLoads)

SpecView == InitView /\ [][NextView]_vars

\* ------------------------------------------------------------ keywordColors
\* The longest keyword-type response.
MaxKeywordRows == 2

\* const keywordColors = { 'Informational': '#061ab1', ... }
keywordColors ==
  [Informational |-> "#061ab1",
   Commercial |-> "#4d5fc7",
   Transactional |-> "#F59E0B",
   Navigational |-> "#94a3b8"]

\* keywordColors is an object literal: the names it does not define itself
\* are looked up in Object.prototype, which defines these among others.
ObjectPrototype == {"constructor", "toString"}

\* The name column of the keyword-type sheets: the four categories, a name
\* that is none of them, and a name Object.prototype defines.
KeywordNames ==
  {"Informational", "Commercial", "Transactional", "Navigational", "Other",
   "constructor"}

\* The rows a keyword-type endpoint sends.
KeywordRows ==
  [country_code : {"PL-PL"}, name : KeywordNames, percent : {30, 70}]

\* keywordColors[name]: the color the literal defines, the member it
\* inherits, or undefined.
lookup(name) ==
  IF name \in DOMAIN keywordColors THEN keywordColors[name]
  ELSE IF name \in ObjectPrototype THEN "Object.prototype." \o name
  ELSE "undefined"

\* keywordColors[item.name] || '#666666': the fallback replaces undefined;
\* a color string and an inherited member are truthy.
colorOf(name) ==
  IF lookup(name) = "undefined" THEN "#666666" ELSE lookup(name)

\* rows.map(item => ({ ...item, color: keywordColors[item.name] || '#666666' }))
withColors(rows) ==
  [i \in 1..Len(rows) |->
     [country_code |-> rows[i].country_code,
      name |-> rows[i].name,
      percent |-> rows[i].percent,
      color |-> colorOf(rows[i].name)]]

\* fetchSEOData unwraps a keyword-type response and adds the colors.
AddColors ==
  /\ keywordTypes' = withColors(body)
  /\ lastOp' = "colors"
  /\ UNCHANGED <<controllerVars, items, currentPage, pageSize, pieData, paths,
                 sheet, body, scores, overview>>

\* A keyword-type response of any rows has come back.
InitColors ==
  /\ InitController
  /\ items = <<>>
  /\ currentPage = 1
  /\ pageSize = 10
  /\ pieData = <<>>
  /\ paths = <<>>
  /\ sheet = NoSheet
  /\ body \in UNION {[1..k -> KeywordRows] : k \in 0..MaxKeywordRows}
  /\ keywordTypes = <<>>
  /\ scores = <<>>
  /\ overview = NoOverview

NextColors == AddColors

SpecColors == InitColors /\ [][NextColors]_vars

\* ------------------------------------------------------------ overview card
\* The largest difficulty score of a DomainInfo row.
MaxScore == 100

\* transformedData.domainInfo?.field when there is no DomainInfo row.
NoNumber == -1

\* The numbers of a DomainInfo row: total_keywords and avg_difficulty_brand.
Scores == [total_keywords : {0, 1200}, avg_difficulty_brand : 0..MaxScore]

\* value || 0
OrZero(value) == IF value = NoNumber \/ value = 0 THEN 0 ELSE value

\* getDifficultyColor with the bands closed at the bottom instead of the top.
getDifficultyColor_openBands(difficulty) ==
  IF difficulty < 30 THEN "bg-green-500"
  ELSE IF difficulty < 50 THEN "bg-yellow-500"
  ELSE IF difficulty < 70 THEN "bg-orange-500"
  ELSE "bg-red-500"

\* getDifficultyColor(difficulty)
getDifficultyColor(difficulty) ==
  IF difficulty <= 30 THEN "bg-green-500"
  ELSE IF difficulty <= 50 THEN "bg-yellow-500"
  ELSE IF difficulty <= 70 THEN "bg-orange-500"
  ELSE "bg-red-500"

\* transformedData.domainInfo?.total_keywords and ?.avg_difficulty_brand
domainInfoNumbers ==
  IF view.domainInfo = NoRow
    THEN [total_keywords |-> NoNumber, avg_difficulty_brand |-> NoNumber]
    ELSE scores[view.domainInfo.row]

\* The dashboard renders the overview card: the total keywords, the brand
\* difficulty and the class of its indicator.
RenderOverview ==
  /\ mounted
  /\ Screen = "dashboard"
  /\ overview' =
       [total_keywords |-> OrZero(domainInfoNumbers.total_keywords),
        avg_difficulty_brand |-> OrZero(domainInfoNumbers.avg_difficulty_brand),
        color |-> getDifficultyColor(OrZero(domainInfoNumbers.avg_difficulty_brand))]
  /\ lastOp' = "overview"
  /\ UNCHANGED <<controllerVars, items, currentPage, pageSize, pieData, paths,
                 sheet, body, keywordTypes, scores>>

\* The load controller once the first load has succeeded and the effect
\* that follows its render has been served from the cache.
LoadedController ==
  /\ now = 0
  /\ cache = set(EmptyMap, cacheKey, Loaded, 0)
  /\ data = Loaded
  /\ error = NoError
  /\ isLoading = FALSE
  /\ selectedCountry = "PL"
  /\ selectedLanguage = "native"
  /\ abortControllerRef = 1
  /\ aborted = {1}
  /\ loads = EmptyMap
  /\ nextId = 2
  /\ settled = {1}
  /\ dirty = FALSE
  /\ mounted = TRUE
  /\ lastOp = "effect_hit"
  /\ lastSet = [data |-> Loaded, time |-> 0, prior |-> "absent", forced |-> FALSE]
  /\ lastPending = {}

\* The component before its first load has answered, or with the dataset
\* loaded; the domainInfo sheet has no row or one row, of any numbers, for
\* the selected tag or for another.
InitOverview ==
  /\ InitController \/ LoadedController
  /\ items = <<>>
  /\ currentPage = 1
  /\ pageSize = 10
  /\ pieData = <<>>
  /\ paths = <<>>
  /\ \E k \in KeySeqs(TagKeys, 1) :
       /\ sheet = [e \in Endpoints |-> IF e = "domainInfo" THEN k ELSE <<>>]
       /\ scores \in [1..Len(k) -> Scores]
  /\ body = <<>>
  /\ keywordTypes = <<>>
  /\ overview = NoOverview

NextOverview == RenderOverview

SpecOverview == InitOverview /\ [][NextOverview]_vars

\* ------------------------------------------------------------------ claims
\* The next step is the effect's loadData(): it calls cache.get.
GetCalled == mounted /\ dirty /\ ~RenderThrows(data)

\* The loads whose fetchSEOData settles in this step.
Settling == (DOMAIN loads) \ (DOMAIN loads')

\* C1: when an earlier load settles after a later one has, its dataset is
\* discarded: neither the displayed data nor the cache is written by it.
C1_SupersededDiscarded ==
  [][\A id \in Settling :
       (mounted /\ \E j \in settled : j > id)
         => (data' = data /\ cache' = cache)]_vars

\* C2: once a fetch has failed and the error state is set, the only loads
\* that reach the network are the forced ones of the Retry and Refresh
\* buttons.
C2_NoAutomaticRetry ==
  [][(error # NoError /\ nextId' > nextId) => loads'[nextId].forceRefresh]_vars

\* C3: get returns the stored dataset and keeps the entry when
\* now - capturedAt < ttl; for now - capturedAt >= ttl, the two being equal
\* included, it returns absent and removes the entry.
C3_GetExpiry ==
  cacheKey \in DOMAIN cache =>
    LET found == get(cache, cacheKey, now) IN
    IF now - cache[cacheKey].timestamp < ttl
      THEN found.value = cache[cacheKey].data /\ found.cache = cache
      ELSE found.value = null /\ cacheKey \notin DOMAIN found.cache

\* C4: from the moment of a set until ttl has passed, get returns exactly
\* the dataset of that set, whatever the entry was before it.
C4_SetThenGet ==
  (lastSet # NoSet /\ now - lastSet.time < ttl) =>
    /\ get(cache, cacheKey, now).value = lastSet.data
    /\ cacheKey \in DOMAIN cache
    /\ cache[cacheKey].timestamp = lastSet.time

\* A set replaced an expired entry, time has passed, and get returns the
\* dataset of that set.
C4_Witness ==
  /\ lastSet.prior = "expired"
  /\ now > lastSet.time
  /\ now - lastSet.time < ttl
  /\ get(cache, cacheKey, now).value = lastSet.data

\* C5: a non-forced load that finds a present, unexpired dataset in the
\* cache displays it and stops: no request is sent and the cache entry and
\* its timestamp stay as they are.
C5_CacheHitStops ==
  [][(/\ GetCalled
      /\ cacheKey \in DOMAIN cache
      /\ now - cache[cacheKey].timestamp < ttl)
     => (/\ data' = cache[cacheKey].data
         /\ ~isLoading'
         /\ cache' = cache
         /\ loads' = loads
         /\ nextId' = nextId)]_vars

\* After a country change the effect's load was served from the cache.
C5_Witness ==
  /\ cacheKey \in DOMAIN cache
  /\ lastOp = "effect_hit"
  /\ selectedCountry # "PL"
  /\ data # null
  /\ data = cache[cacheKey].data
  /\ ~isLoading

\* C6: a non-forced load to which get returns absent sends a fetch; when a
\* fetch succeeds its dataset is stored in the cache with the current time
\* and displayed; and the displayed data only ever changes to the dataset
\* the cache returned or to the dataset of the fetch that has just succeeded.
C6_MissFetchesAndStores ==
  [][/\ (GetCalled /\ get(cache, cacheKey, now).value = null)
          => (/\ nextId' = nextId + 1
              /\ nextId \in DOMAIN loads'
              /\ \A e \in Endpoints : loads'[nextId].res[e] = Pending)
     /\ lastOp' = "settle_ok"
          => \E id \in Settling : \E e \in Endpoints, o \in Outcomes :
               LET result == fetchSEOData(id, Response(e, o)) IN
               /\ result.ok
               /\ data' = result.value
               /\ cacheKey \in DOMAIN cache'
               /\ cache'[cacheKey] = [data |-> result.value, timestamp |-> now]
     /\ data' # data
          => \/ lastOp' = "settle_ok"
             \/ GetCalled /\ data' = get(cache, cacheKey, now).value]_vars

\* After the first load had settled and ttl had passed, a load started by
\* the effect has fetched: its dataset is displayed and cached with the
\* current time.
C6_Witness ==
  /\ cacheKey \in DOMAIN cache
  /\ lastOp = "settle_ok"
  /\ ~lastSet.forced
  /\ 1 \in settled
  /\ now > ttl
  /\ data = lastSet.data
  /\ cache[cacheKey] = [data |-> data, timestamp |-> now]

\* C7 as stated: a load whose fetch fails ends with the error set and the
\* displayed data empty.
C7_FailureLeavesDataEmpty ==
  lastOp = "settle_fail" => (error # NoError /\ data = null)

\* C7 as amended: a load whose fetch fails ends with the error set, the
\* loading state left, and the displayed data as it was before the failure.
C7_FailureKeepsData ==
  [][lastOp' = "settle_fail"
       => (error' = ErrorMessage /\ ~isLoading' /\ data' = data)]_vars

\* A refresh failed after a dataset had been displayed: the dataset stays.
C7_Witness ==
  /\ lastOp = "settle_fail"
  /\ error = ErrorMessage
  /\ data # null

\* C8: Retry and Refresh always send a new fetch and leave the cache alone
\* until it answers; when a forced load succeeds, the cache entry and the
\* displayed data are both its dataset.
C8_ForcedBypassesCache ==
  [][/\ lastOp' \in {"refresh", "retry"}
          => (/\ nextId' = nextId + 1
              /\ nextId \in DOMAIN loads'
              /\ loads'[nextId].forceRefresh
              /\ cache' = cache)
     /\ \A id \in Settling :
          (loads[id].forceRefresh /\ lastOp' = "settle_ok")
            => (/\ data' # null
                /\ \A e \in Endpoints : data'[e] \in {id, Undefined}
                /\ cacheKey \in DOMAIN cache'
                /\ cache'[cacheKey] = [data |-> data', timestamp |-> now])]_vars

\* A forced load has replaced an unexpired cache entry and the displayed data.
C8_Witness ==
  /\ cacheKey \in DOMAIN cache
  /\ lastOp = "settle_ok"
  /\ lastSet.forced
  /\ lastSet.prior = "fresh"
  /\ data = lastSet.data
  /\ cache[cacheKey].data = data

\* C9: a load one of whose five requests came back without its envelope
\* field does not end as a success.
C9_AnyBadRequestIsError ==
  lastOp = "settle_ok" => \A e \in Endpoints : data[e] # Undefined

C11_CancelledLoadSilent ==
  [][\A id \in Settling :
       (id \in aborted \/ ~mounted) => error' = error]_vars

\* C12: while the component is mounted and a load that reached the network
\* has not settled, isLoading is true.
C12_LoadingWhileInFlight ==
  (mounted /\ DOMAIN loads # {}) => isLoading

\* C13: totalPages is the least number of pages of pageSize rows that hold
\* all the rows; the visible slice is rows (p-1)*S+1 .. min(p*S, N) in their
\* order; it never has more than S rows, and on a page p <= totalPages it
\* has exactly min(S, N - (p-1)*S) rows.
C13_PageSlice ==
  LET N == Len(items)
      S == pageSize
      p == currentPage
      first == (p - 1) * S + 1
      last == IF p * S < N THEN p * S ELSE N
  IN  /\ totalPages * S >= N
      /\ (totalPages - 1) * S < N
      /\ Len(paginatedData) = (IF last >= first THEN last - first + 1 ELSE 0)
      /\ \A i \in 1..Len(paginatedData) : paginatedData[i] = items[first + i - 1]
      /\ Len(paginatedData) <= S
      /\ p <= totalPages =>
            Len(paginatedData) = (IF S < N - (p - 1) * S THEN S ELSE N - (p - 1) * S)

\* 23 rows in pages of 10: the third and last page shows rows 21 to 23.
C13_Witness ==
  /\ Len(items) = 23
  /\ pageSize = 10
  /\ totalPages = 3
  /\ currentPage = 3
  /\ paginatedData = <<21, 22, 23>>
  /\ ~hasNextPage

\* C14 as stated: after goToPage the current page is in 1..totalPages,
\* whatever page was asked for and however many rows there are.
C14_GoToPageInRange ==
  lastOp = "goToPage" => currentPage \in 1..totalPages

\* C14 as amended: after goToPage the current page is in 1..totalPages when
\* there are rows, and is page 1, with totalPages 0, when there are none.
C14_GoToPageClamped ==
  lastOp = "goToPage" =>
    IF Len(items) = 0
      THEN currentPage = 1 /\ totalPages = 0
      ELSE currentPage \in 1..totalPages

\* goToPage has left the hook on the last of several pages.
C14_Witness ==
  /\ lastOp = "goToPage"
  /\ totalPages > 2
  /\ currentPage = totalPages
  /\ Len(paginatedData) > 0

\* C15: goToNextPage adds one to the current page exactly when hasNextPage,
\* goToPreviousPage takes one off exactly when hasPreviousPage, and they
\* leave it alone otherwise; hasNextPage is currentPage < totalPages and
\* hasPreviousPage is currentPage > 1.
C15_NextPreviousWithinBounds ==
  [][/\ lastOp' = "goToNextPage" =>
          currentPage' = (IF hasNextPage THEN currentPage + 1 ELSE currentPage)
     /\ lastOp' = "goToPreviousPage" =>
          currentPage' = (IF hasPreviousPage THEN currentPage - 1 ELSE currentPage)
     /\ hasNextPage <=> currentPage * pageSize < Len(items)
     /\ hasPreviousPage <=> currentPage >= 2]_vars

\* goToNextPage was called on the last page and left the hook there.
C15_Witness ==
  /\ lastOp = "goToNextPage"
  /\ currentPage = totalPages
  /\ totalPages >= 2
  /\ ~hasNextPage
  /\ hasPreviousPage

\* C16: setPageSize(n) leaves the hook with page size n, on page 1, showing
\* the first min(n, N) rows.
C16_PageSizeResetsPage ==
  lastOp = "setPageSize" =>
    /\ pageSize \in pageSizes
    /\ currentPage = 1
    /\ paginatedData =
         [i \in 1..(IF pageSize < Len(items) THEN pageSize ELSE Len(items)) |-> items[i]]

\* The page size was changed to 5 over 23 rows: rows 1 to 5 are shown.
C16_Witness ==
  /\ lastOp = "setPageSize"
  /\ Len(items) = 23
  /\ pageSize = 5
  /\ totalPages = 5
  /\ currentPage = 1
  /\ paginatedData = <<1, 2, 3, 4, 5>>

\* The sum of a function of the rows, and of a function of the paths.
RECURSIVE SumTo(_, _)
SumTo(f, n) == IF n = 0 THEN 0 ELSE SumTo(f, n - 1) + f[n]

\* C17: for a non-empty array of positive whole percents, the spans of the
\* slices drawn add up to the full circle, whatever the percents add up to.
C17_SpansFillCircle ==
  (/\ lastOp = "pie"
   /\ Len(pieData) > 0
   /\ \A i \in 1..Len(pieData) : pieData[i] >= Scale /\ pieData[i] % Scale = 0)
    => SumTo([k \in 1..Len(paths) |-> paths[k].endAngle - paths[k].startAngle],
             Len(paths)) = 3600 * Scale

\* C18: the large-arc flag of a slice is 1 exactly when its percent is more
\* than half of the sum of all the percents.
C18_LargeArcByShare ==
  lastOp = "pie" => \A k \in 1..Len(paths) :
    paths[k].largeArcFlag = 1
      <=> 2 * pieData[paths[k].index] > SumTo(pieData, Len(pieData))

\* C19: no slice is drawn for an empty array or one of zeros only; the rows
\* drawn are exactly the rows of at least 0.1 percent, in their order.
C19_SkipsNegligible ==
  lastOp = "pie" =>
    /\ (\A i \in 1..Len(pieData) : pieData[i] = 0) => paths = <<>>
    /\ \A k \in 1..Len(paths) : 10 * pieData[paths[k].index] >= Scale
    /\ \A i \in 1..Len(pieData) :
         10 * pieData[i] >= Scale => \E k \in 1..Len(paths) : paths[k].index = i
    /\ \A k \in 1..(Len(paths) - 1) : paths[k].index < paths[k + 1].index

\* A zero row and a row below 0.1 percent are skipped and the 30 percent row
\* after them is drawn.
C19_Witness ==
  /\ lastOp = "pie"
  /\ Len(pieData) = 3
  /\ pieData[1] = 0
  /\ pieData[2] > 0
  /\ 10 * pieData[2] < Scale
  /\ pieData[3] = 30 * Scale
  /\ Len(paths) = 1
  /\ paths[1].index = 3

\* The key the claim composes for a selection.
CompositeKey(code, language) ==
  IF language = "native" THEN code \o "-" \o code ELSE code \o "-EN"

\* The rows of a sheet that a view of it shows are exactly those of key k,
\* in the order of the sheet.
ShowsExactly(shown, keys, k) ==
  /\ \A n \in 1..Len(shown) :
       /\ shown[n].row \in 1..Len(keys)
       /\ keys[shown[n].row] = k
       /\ shown[n].country_code = k
  /\ \A i \in 1..Len(keys) : keys[i] = k => \E n \in 1..Len(shown) : shown[n].row = i
  /\ \A n \in 1..(Len(shown) - 1) : shown[n].row < shown[n + 1].row

\* C20: for every selection the tag is "{code}-{code}" or "{code}-EN"; the
\* view has the first DomainInfo row of that key or none, exactly the brand,
\* non-brand and long-tail rows of that key in their order, and exactly the
\* competitor rows of the bare country code; the language toggle leaves the
\* competitor view as it is.
C20_DerivedView ==
  [][LET key == CompositeKey(selectedCountry, selectedLanguage) IN
     /\ getCurrentTag(selectedCountry, selectedLanguage) = key
     /\ IF \E i \in 1..Len(sheet["domainInfo"]) : sheet["domainInfo"][i] = key
          THEN /\ view.domainInfo.country_code = key
               /\ sheet["domainInfo"][view.domainInfo.row] = key
               /\ \A j \in 1..(view.domainInfo.row - 1) : sheet["domainInfo"][j] # key
          ELSE view.domainInfo = NoRow
     /\ ShowsExactly(view.brandKeywords, sheet["keywordTypesBrand"], key)
     /\ ShowsExactly(view.nonBrandKeywords, sheet["keywordTypesNonBrand"], key)
     /\ ShowsExactly(view.longTailKeywords, sheet["longTailKeywords"], key)
     /\ ShowsExactly(view.competitors, sheet["competitors"], selectedCountry)
     /\ lastOp' = "language" => view'.competitors = view.competitors]_vars

\* Spain in English is selected: the view has the two ES-EN rows of a sheet
\* that has another row between them, and the one competitor row of key ES.
C20_Witness ==
  /\ selectedCountry = "ES"
  /\ selectedLanguage = "english"
  /\ lastOp = "language"
  /\ sheet["longTailKeywords"] = <<"ES-EN", "PL-PL", "ES-EN">>
  /\ Len(view.longTailKeywords) = 2
  /\ view.longTailKeywords[2].row = 3
  /\ view.domainInfo.row = 1
  /\ sheet["competitors"] = <<"ES-EN", "ES", "ES-EN">>
  /\ Len(view.competitors) = 1
  /\ view.competitors[1].row = 2

\* C22: the displayed dataset and the cached dataset are each the result
\* of one fetch: all the collections they have were unwrapped from the
\* responses of the same load.
C22_DatasetFromOneFetch ==
  /\ data # null =>
       \E id \in settled : \A e \in Endpoints : data[e] \in {id, Undefined}
  /\ cacheKey \in DOMAIN cache =>
       \E id \in settled :
         \A e \in Endpoints : cache[cacheKey].data[e] \in {id, Undefined}

\* A second load has replaced the dataset of the first, in the display and
\* in the cache, all five collections at once.
C22_Witness ==
  /\ mounted
  /\ lastOp = "settle_ok"
  /\ 1 \in settled
  /\ \A e \in Endpoints : data[e] = 2
  /\ cacheKey \in DOMAIN cache
  /\ cache[cacheKey].data = data

\* C27: when the load that completed last succeeded, from the cache or
\* from the network, the error state is null.
C27_NoErrorAfterSuccess ==
  lastOp \in {"settle_ok", "effect_hit"} => error = NoError

\* C28: a load whose fetch fails writes nothing to the cache; a forced load
\* leaves the cache alone when it starts, and a load of the effect leaves an
\* entry that has not expired alone when it starts.
C28_FailureLeavesCache ==
  [][/\ lastOp' = "settle_fail" => cache' = cache
     /\ lastOp' \in {"refresh", "retry"} => cache' = cache
     /\ (/\ lastOp' \in {"effect_hit", "effect_miss"}
         /\ cacheKey \in DOMAIN cache
         /\ now - cache[cacheKey].timestamp <= ttl) => cache' = cache]_vars

\* A refresh has failed while the entry of the first load had not expired:
\* the entry is there with its dataset and its timestamp.
C28_Witness ==
  /\ lastOp = "settle_fail"
  /\ error = ErrorMessage
  /\ cacheKey \in DOMAIN cache
  /\ cache[cacheKey].data = [e \in Endpoints |-> 1]
  /\ cache[cacheKey].timestamp < now
  /\ now - cache[cacheKey].timestamp <= ttl
  /\ get(cache, cacheKey, now).value = cache[cacheKey].data

\* C29: the cache has no entry but the one under cacheKey, and while the
\* component is mounted an entry that is there holds the displayed dataset.
C29_SingleEntryIsDisplayed ==
  /\ DOMAIN cache \subseteq {cacheKey}
  /\ (mounted /\ cacheKey \in DOMAIN cache) => data = cache[cacheKey].data

\* A forced load has replaced an entry: the one entry holds what is displayed.
C29_Witness ==
  /\ mounted
  /\ DOMAIN cache = {cacheKey}
  /\ lastSet.prior = "fresh"
  /\ lastSet.forced
  /\ data = cache[cacheKey].data
  /\ data # [e \in Endpoints |-> 1]

\* What pageInfo shows.
pageInfo ==
  [startItem |-> paginate(items, currentPage, pageSize).startItem,
   endItem |-> paginate(items, currentPage, pageSize).endItem,
   totalItems |-> paginate(items, currentPage, pageSize).totalItems]

\* C26: whatever was called and however the array changed, the current page
\* is between 1 and max(1, totalPages): an array that has rows never shows
\* an empty slice, and startItem <= endItem.
C26_PageStaysInRange ==
  /\ currentPage >= 1
  /\ currentPage <= (IF totalPages > 1 THEN totalPages ELSE 1)
  /\ Len(items) > 0 => Len(paginatedData) > 0
  /\ pageInfo.startItem <= pageInfo.endItem

\* C25: a slice starts where the row before it in the array ended, drawn
\* or not: at the quarter turn before 3 o'clock for the first row, and for
\* every row at that angle plus the angle of the sum of the percents of the
\* rows before it; it ends at its start plus the angle of its own percent,
\* and the slices are drawn in the order of the rows.
C25_SlicesContiguous ==
  lastOp = "pie" =>
    /\ \A k \in 1..Len(paths) :
         /\ paths[k].startAngle =
              36 * SumTo(pieData, paths[k].index - 1) - 900 * Scale
         /\ paths[k].endAngle = paths[k].startAngle + 36 * pieData[paths[k].index]
    /\ \A k \in 1..(Len(paths) - 1) :
         /\ paths[k].index < paths[k + 1].index
         /\ paths[k + 1].startAngle =
              paths[k].endAngle
                + 36 * (SumTo(pieData, paths[k + 1].index - 1)
                          - SumTo(pieData, paths[k].index))

\* A row below 0.1 percent between two rows of 30 percent is skipped and
\* the second slice starts that much after the end of the first.
C25_Witness ==
  /\ lastOp = "pie"
  /\ Len(pieData) = 3
  /\ pieData[1] = 30 * Scale
  /\ pieData[2] > 0
  /\ 10 * pieData[2] < Scale
  /\ pieData[3] = 30 * Scale
  /\ Len(paths) = 2
  /\ paths[1].startAngle = -(900 * Scale)
  /\ paths[2].index = 3
  /\ paths[2].startAngle = paths[1].endAngle + 36 * pieData[2]

C23_ColorByCategory ==
  lastOp = "colors" =>
    /\ Len(keywordTypes) = Len(body)
    /\ \A i \in 1..Len(body) :
         /\ keywordTypes[i].country_code = body[i].country_code
         /\ keywordTypes[i].name = body[i].name
         /\ keywordTypes[i].percent = body[i].percent
         /\ keywordTypes[i].color =
              (CASE body[i].name = "Informational" -> "#061ab1"
                 [] body[i].name = "Commercial" -> "#4d5fc7"
                 [] body[i].name = "Transactional" -> "#F59E0B"
                 [] body[i].name = "Navigational" -> "#94a3b8"
                 [] OTHER -> "#666666")

\* C24: with no dataset, or with no DomainInfo row for the selected tag,
\* the derived DomainInfo is none; the overview card is then drawn without an
\* error, with zeros and the green indicator of difficulty 0; and the
\* indicator is green up to 30, yellow from 31 to 50, orange from 51 to 70
\* and red above 70.
C24_MissingRowIsZero ==
  LET tag == CompositeKey(selectedCountry, selectedLanguage)
      missing == data = null
                   \/ \A i \in 1..Len(sheet["domainInfo"]) : sheet["domainInfo"][i] # tag
      bands == {"bg-green-500", "bg-yellow-500", "bg-orange-500", "bg-red-500"}
      d == overview.avg_difficulty_brand
  IN  /\ missing => view.domainInfo = NoRow
      /\ lastOp = "overview" =>
           /\ error = NoError
           /\ missing => overview = [total_keywords |-> 0,
                                      avg_difficulty_brand |-> 0,
                                      color |-> "bg-green-500"]
           /\ ~missing => d = scores[1].avg_difficulty_brand
           /\ overview.color \in bands
           /\ overview.color = "bg-green-500" <=> d \in 0..30
           /\ overview.color = "bg-yellow-500" <=> d \in 31..50
           /\ overview.color = "bg-orange-500" <=> d \in 51..70
           /\ overview.color = "bg-red-500" <=> d > 70

\* The one DomainInfo row is for another tag than the selected one: the
\* card shows zeros and the green indicator, and there is no error.
C24_Witness ==
  /\ lastOp = "overview"
  /\ data # null
  /\ sheet["domainInfo"] = <<"ES-EN">>
  /\ scores[1].avg_difficulty_brand = 71
  /\ view.domainInfo = NoRow
  /\ overview = [total_keywords |-> 0, avg_difficulty_brand |-> 0,
                 color |-> "bg-green-500"]
  /\ error = NoError

\* The render that is due would send one load more than the run may send.
Capped ==
  /\ mounted
  /\ dirty
  /\ ~RenderThrows(data)
  /\ nextId > MaxLoadsReq
  /\ get(cache, cacheKey, now).value = null

\* C30: every load that reached the network settles, and the step in which
\* a load ends, served from the cache or settled by success or by failure,
\* leaves the mounted component with isLoading false.
C30_LoadLeavesLoading ==
  /\ \A id \in 1..MaxLoadsReq :
       (id \in DOMAIN loads) ~> (id \notin DOMAIN loads \/ Capped)
  /\ [][/\ \A id \in Settling : mounted => ~isLoading'
        /\ lastOp' = "effect_hit" => ~isLoading']_vars

\* The first load has ended by the failure of one request while others were
\* pending, and the component has left the loading state.
C30_Witness ==
  /\ mounted
  /\ lastOp = "settle_fail"
  /\ settled = {1}
  /\ lastPending # {}
  /\ DOMAIN loads = {}
  /\ ~isLoading

====
